---- MODULE Spec2Model ----
(***************************************************************************)
(* Model of backend/server.py: a FastAPI service with six routes over an   *)
(* optional MongoDB handle (db) and one outbound webhook (Google Sheets).  *)
(* Every handler is an asyncio coroutine; it runs without interruption up  *)
(* to its `await` on the store, so each handler is one action up to the    *)
(* await and one action for the store call together with the code after    *)
(* it.  requests.post is a blocking call and is part of the first action.  *)
(***************************************************************************)
EXTENDS Integers, Sequences, FiniteSets, TLC

\* ---------------------------------------------------------------- bounds
MaxReqs == 2            \* number of requests served in one behaviour

\* ------------------------------------------------------ program constants
StatusCap == 1000       \* to_list(1000) in get_status_checks
ContactsCap == 100      \* to_list(100) in admin_panel and get_contacts
WebhookTimeout == 15    \* timeout=15 of requests.post

VARIABLES db, status_checks, contacts, reqs, clock, uuids

vars == <<db, status_checks, contacts, reqs, clock, uuids>>

Reqs == 1..MaxReqs

\* client_name values posted to /status
Names == {"a", "b"}

\* e-mail addresses as character tuples: valid, no "@", empty local part
Emails == { <<"a", "@", "b", ".", "c">>, <<"a", "b", ".", "c">>, <<"@", "b", ".", "c">> }

\* what the webhook does: how long it takes and what it answers
WebhookResults == [elapsed : {WebhookTimeout, WebhookTimeout + 1},
                   reply : {"200", "500", "ConnectionError"}]

\* sizes of the collections of a store that is in use for some time
CapFill == { [s |-> StatusCap - 1, c |-> ContactsCap],
             [s |-> StatusCap + 1, c |-> ContactsCap + 1] }

Max(a, b) == IF a >= b THEN a ELSE b
Min(a, b) == IF a <= b THEN a ELSE b

\* ------------------------------------------------------------ pure helpers

\* variant: any string with an "@" passes
EmailStr_lax(e) == \E i \in 1..Len(e) : e[i] = "@"

\* pydantic EmailStr: one "@", a non-empty local part, a dotted domain
EmailStr(e) ==
    \E i \in 1..Len(e) :
        /\ e[i] = "@"
        /\ i > 1
        /\ \A j \in 1..Len(e) : e[j] = "@" => j = i
        /\ \E k \in (i + 2)..(Len(e) - 1) : e[k] = "."

\* str(ObjectId)
Str(oid) == [str |-> oid]

\* timestamp.strftime("%Y-%m-%d %H:%M:%S")
Strftime(t) == [fmt |-> t]

\* the _id the driver gives a document inserted into coll
ObjectId(coll) == Len(coll) + 1

Reverse(s) == [i \in 1..Len(s) |-> s[Len(s) + 1 - i]]

\* variant: the limit is ignored
to_list_all(cursor, n) == cursor

\* cursor.to_list(n): at most the first n documents of the cursor
to_list(cursor, n) == SubSeq(cursor, 1, Min(n, Len(cursor)))

\* find() without a sort: the documents in the store's own order
find(coll) == {coll, Reverse(coll)}

\* the orders in which the store may put the documents T of equal sort key
TieOrders(T) ==
    {f \in [T -> 1..Cardinality(T)] : \A a, b \in T : a # b => f[a] # f[b]}

Descending(a, b) == a.timestamp > b.timestamp

\* the _id of every document whose timestamp another document shares
Ties(coll) ==
    LET s == SortSeq(coll, Descending)
        eq == {q \in 2..Len(s) : s[q].timestamp = s[q - 1].timestamp}
    IN {s[q]._id : q \in eq} \cup {s[q - 1]._id : q \in eq}

\* cursor.sort("timestamp", -1): descending by timestamp, documents with
\* equal timestamps in any order
sort(coll) ==
    { SortSeq(coll, LAMBDA a, b : \/ a.timestamp > b.timestamp
                                  \/ a.timestamp = b.timestamp /\ f[a._id] < f[b._id])
      : f \in TieOrders(Ties(coll)) }

\* find().sort("timestamp", -1).to_list(n)
find_sorted(coll, n) == { to_list(cursor, n) : cursor \in sort(coll) }

\* StatusCheck(**status_check): the model's fields, _id dropped
StatusCheck(d) == [id |-> d.id, client_name |-> d.client_name, timestamp |-> d.timestamp]

\* contact["_id"] = str(contact["_id"])
Stringified(c) == [c EXCEPT !._id = Str(c._id)]

\* one card of the admin page
Card(c) == [name |-> c.name, email |-> c.email, company |-> c.company,
            date |-> Strftime(c.timestamp), message |-> c.message]

\* ------------------------------------------------------------- responses
Resp(status, detail, body, count, escaped) ==
    [status |-> status, detail |-> detail, body |-> body, count |-> count, escaped |-> escaped]

NoResp == Resp(0, "", <<>>, 0, FALSE)

HTTPException(status_code, detail) == Resp(status_code, detail, <<>>, 0, FALSE)

\* an exception that leaves the handler: the server answers a bare 500
Unhandled == Resp(500, "Internal Server Error", <<>>, 0, TRUE)

\* request validation error of the framework, raised before the handler
ValidationError == Resp(422, "value is not a valid email address", <<>>, 0, FALSE)

NoWeb == [exc |-> "not called", status_code |-> 0, elapsed |-> 0]

NewReq == [kind |-> "none", pc |-> "new", client_name |-> "", email |-> <<>>,
           obj |-> <<>>, web |-> NoWeb, storeCalls |-> 0, webCalls |-> 0,
           storeExc |-> FALSE, resp |-> NoResp]

\* requests.post(..., timeout=15): the response or the exception raised
Post(w) ==
    IF w.elapsed > WebhookTimeout
    THEN [exc |-> "Timeout", status_code |-> 0, elapsed |-> w.elapsed]
    ELSE IF w.reply = "ConnectionError"
    THEN [exc |-> "ConnectionError", status_code |-> 0, elapsed |-> w.elapsed]
    ELSE IF w.reply = "200"
    THEN [exc |-> "none", status_code |-> 200, elapsed |-> w.elapsed]
    ELSE [exc |-> "none", status_code |-> 500, elapsed |-> w.elapsed]

\* the store as this service filled it before: f.s status checks and f.c
\* contacts, one per clock tick
Filled(f) ==
    /\ status_checks = [i \in 1..f.s |->
          [_id |-> i, id |-> i, client_name |-> "a", timestamp |-> i]]
    /\ contacts = [i \in 1..f.c |->
          [_id |-> i, name |-> "n", email |-> <<"a", "@", "b", ".", "c">>,
           company |-> "", message |-> "m", timestamp |-> i]]
    /\ clock = Max(f.s, f.c)
    /\ uuids = f.s

\* a new deployment: MONGO_URL set or not, nothing stored yet
Init ==
    /\ db \in {"None", "configured"}
    /\ Filled([s |-> 0, c |-> 0])
    /\ reqs = [r \in Reqs |-> NewReq]

\* a deployment whose collections are around the caps of the list routes
InitCaps ==
    /\ db = "configured"
    /\ \E f \in CapFill : Filled(f)
    /\ reqs = [r \in Reqs |-> NewReq]

\* datetime.utcnow(): the wall clock, which may or may not have moved on
utcnow(t) == {t, t + 1}

\* variant: the same identifier every time
uuid4_fixed(n) == 1

\* uuid.uuid4() after n identifiers were generated: one not generated before
uuid4(n) == n + 1

\* variant: the handle is never tested
db_is_None_never(d) == FALSE

\* `if db is None` of the handlers
db_is_None(d) == d = "None"

\* variant: the document replaces what is stored
insert_one_replace(coll, doc) == << [_id |-> 1] @@ doc >>

\* collection.insert_one(doc): the document is added with a fresh _id
insert_one(coll, doc) == Append(coll, [_id |-> ObjectId(coll)] @@ doc)

\* a request arrives; requests are numbered in order of arrival
Arrives(r) == reqs[r].pc = "new" /\ (IF r = 1 THEN TRUE ELSE reqs[r - 1].pc # "new")

\* the handler returns or raises: the request is answered
Done(q, resp) == [q EXCEPT !.pc = "done", !.resp = resp]

\* the handler calls the store and is suspended in its await
Await(q, pc) == [q EXCEPT !.pc = pc, !.storeCalls = @ + 1]

\* variant: a failed webhook call is tried again
Called_retry(q, web) ==
    [q EXCEPT !.web = web, !.webCalls = IF web.exc = "none" THEN @ + 1 ELSE @ + 2]

\* the handler calls the webhook once and holds its outcome
Called(q, web) == [q EXCEPT !.web = web, !.webCalls = @ + 1]

\* --------------------------------------------------------------- GET /
root(r) ==
    /\ Arrives(r)
    /\ reqs' = [reqs EXCEPT ![r] =
          Done([@ EXCEPT !.kind = "root"], Resp(200, "Hello World - backend up", <<>>, 0, FALSE))]
    /\ UNCHANGED <<db, status_checks, contacts, clock, uuids>>

\* --------------------------------------------------------- POST /status
create_status_check(r) ==
    /\ Arrives(r)
    /\ \E name \in Names :
        LET q == [reqs[r] EXCEPT !.kind = "post_status", !.client_name = name]
        IN IF db_is_None(db)
           THEN /\ reqs' = [reqs EXCEPT ![r] = Done(q, HTTPException(503, "Database not configured"))]
                /\ UNCHANGED <<clock, uuids>>
           ELSE \E now \in utcnow(clock) :
                /\ reqs' = [reqs EXCEPT ![r] = Await([q EXCEPT !.obj =
                      [id |-> uuid4(uuids), client_name |-> name, timestamp |-> now]], "await_insert")]
                /\ clock' = now
                /\ uuids' = uuids + 1
    /\ UNCHANGED <<db, status_checks, contacts>>

\* the insert_one of line 82 and the return after it
create_status_check_resume(r) ==
    /\ reqs[r].kind = "post_status" /\ reqs[r].pc = "await_insert"
    /\ \/ /\ status_checks' = insert_one(status_checks, reqs[r].obj)
          /\ reqs' = [reqs EXCEPT ![r] = Done(@, Resp(200, "", <<reqs[r].obj>>, 0, FALSE))]
       \/ /\ reqs' = [reqs EXCEPT ![r] = Done([@ EXCEPT !.storeExc = TRUE], Unhandled)]
          /\ UNCHANGED status_checks
    /\ UNCHANGED <<db, contacts, clock, uuids>>

\* ---------------------------------------------------------- GET /status
get_status_checks(r) ==
    /\ Arrives(r)
    /\ LET q == [reqs[r] EXCEPT !.kind = "get_status"]
       IN IF db_is_None(db)
          THEN reqs' = [reqs EXCEPT ![r] = Done(q, HTTPException(503, "Database not configured"))]
          ELSE reqs' = [reqs EXCEPT ![r] = Await(q, "await_find")]
    /\ UNCHANGED <<db, status_checks, contacts, clock, uuids>>

\* the find().to_list(1000) of line 89 and the return after it
get_status_checks_resume(r) ==
    /\ reqs[r].kind = "get_status" /\ reqs[r].pc = "await_find"
    /\ \/ \E cursor \in find(status_checks) :
            LET docs == to_list(cursor, StatusCap)
            IN reqs' = [reqs EXCEPT ![r] = Done(@,
                  Resp(200, "", [i \in 1..Len(docs) |-> StatusCheck(docs[i])], 0, FALSE))]
       \/ reqs' = [reqs EXCEPT ![r] = Done([@ EXCEPT !.storeExc = TRUE], Unhandled)]
    /\ UNCHANGED <<db, status_checks, contacts, clock, uuids>>

\* ----------------------------------------------------------- GET /admin
admin_panel(r) ==
    /\ Arrives(r)
    /\ LET q == [reqs[r] EXCEPT !.kind = "admin"]
       IN IF db_is_None(db)
          THEN reqs' = [reqs EXCEPT ![r] = Done(q, Resp(503, "Admin panel unavailable", <<>>, 0, FALSE))]
          ELSE reqs' = [reqs EXCEPT ![r] = Await(q, "await_find")]
    /\ UNCHANGED <<db, status_checks, contacts, clock, uuids>>

\* the query of line 105, the rendering and the except clause
admin_panel_resume(r) ==
    /\ reqs[r].kind = "admin" /\ reqs[r].pc = "await_find"
    /\ \/ \E docs \in find_sorted(contacts, ContactsCap) :
            reqs' = [reqs EXCEPT ![r] = Done(@,
                  Resp(200, IF Len(docs) = 0 THEN "No submissions yet." ELSE "Contact Submissions",
                       [i \in 1..Len(docs) |-> Card(Stringified(docs[i]))], Len(docs), FALSE))]
       \/ reqs' = [reqs EXCEPT ![r] = Done([@ EXCEPT !.storeExc = TRUE],
                  HTTPException(500, "Failed to generate admin panel"))]
    /\ UNCHANGED <<db, status_checks, contacts, clock, uuids>>

\* -------------------------------------------------------- GET /contacts
get_contacts(r) ==
    /\ Arrives(r)
    /\ LET q == [reqs[r] EXCEPT !.kind = "get_contacts"]
       IN IF db_is_None(db)
          THEN reqs' = [reqs EXCEPT ![r] = Done(q, HTTPException(503, "Database not configured"))]
          ELSE reqs' = [reqs EXCEPT ![r] = Await(q, "await_find")]
    /\ UNCHANGED <<db, status_checks, contacts, clock, uuids>>

\* the query of line 151, the return and the except clause
get_contacts_resume(r) ==
    /\ reqs[r].kind = "get_contacts" /\ reqs[r].pc = "await_find"
    /\ \/ \E docs \in find_sorted(contacts, ContactsCap) :
            reqs' = [reqs EXCEPT ![r] = Done(@,
                  Resp(200, "success", [i \in 1..Len(docs) |-> Stringified(docs[i])], Len(docs), FALSE))]
       \/ reqs' = [reqs EXCEPT ![r] = Done([@ EXCEPT !.storeExc = TRUE],
                  HTTPException(500, "Failed to fetch contacts"))]
    /\ UNCHANGED <<db, status_checks, contacts, clock, uuids>>

\* --------------------------------------------------------- POST /contact
Success == Resp(200, "success", <<>>, 0, FALSE)

\* variant: no except clause for the timeout
contact_form_failure_generic(web) == HTTPException(500, "Failed to send message")

\* what the handler answers when the webhook did not return 200: the else
\* branch raises inside the try and `except Exception` raises it again
contact_form_failure(web) ==
    IF web.exc = "Timeout" THEN HTTPException(500, "Timeout sending message")
    ELSE HTTPException(500, "Failed to send message")

\* variant: any reply counts as delivered
webhook_ok_any(web) == web.exc = "none"

\* `response.status_code == 200`
webhook_ok(web) == web.exc = "none" /\ web.status_code = 200

\* variant: a failed insert fails the request
saved_response_strict(inserted) ==
    IF inserted THEN Success ELSE HTTPException(500, "Failed to send message")

\* what the handler answers after the insert: the inner except swallows
saved_response(inserted) == Success

contact_form(r) ==
    /\ Arrives(r)
    /\ \E email \in Emails, w \in WebhookResults :
        LET q == [reqs[r] EXCEPT !.kind = "post_contact", !.email = email]
        IN IF ~EmailStr(email)
           THEN /\ reqs' = [reqs EXCEPT ![r] = Done(q, ValidationError)]
                /\ UNCHANGED clock
           ELSE LET c == Called(q, Post(w))
                IN IF webhook_ok(c.web)
                   THEN IF ~db_is_None(db)
                        THEN \E now \in utcnow(clock) :
                             /\ reqs' = [reqs EXCEPT ![r] = Await([c EXCEPT !.obj =
                                   [name |-> "n", email |-> email, company |-> "",
                                    message |-> "m", timestamp |-> now]], "await_insert")]
                             /\ clock' = now
                        ELSE /\ reqs' = [reqs EXCEPT ![r] = Done(c, Success)]
                             /\ UNCHANGED clock
                   ELSE /\ reqs' = [reqs EXCEPT ![r] = Done(c, contact_form_failure(c.web))]
                        /\ UNCHANGED clock
    /\ UNCHANGED <<db, status_checks, contacts, uuids>>

\* the insert_one of line 190, its except clause and the return
contact_form_resume(r) ==
    /\ reqs[r].kind = "post_contact" /\ reqs[r].pc = "await_insert"
    /\ \/ /\ contacts' = insert_one(contacts, reqs[r].obj)
          /\ reqs' = [reqs EXCEPT ![r] = Done(@, saved_response(TRUE))]
       \/ /\ reqs' = [reqs EXCEPT ![r] = Done([@ EXCEPT !.storeExc = TRUE], saved_response(FALSE))]
          /\ UNCHANGED contacts
    /\ UNCHANGED <<db, status_checks, clock, uuids>>

Next ==
    \E r \in Reqs :
        \/ root(r)
        \/ create_status_check(r)
        \/ create_status_check_resume(r)
        \/ get_status_checks(r)
        \/ get_status_checks_resume(r)
        \/ admin_panel(r)
        \/ admin_panel_resume(r)
        \/ get_contacts(r)
        \/ get_contacts_resume(r)
        \/ contact_form(r)
        \/ contact_form_resume(r)

Spec == Init /\ [][Next]_vars

\* the routes that store and list status checks and list contacts
NextCaps ==
    \E r \in Reqs :
        \/ create_status_check(r)
        \/ create_status_check_resume(r)
        \/ get_status_checks(r)
        \/ get_status_checks_resume(r)
        \/ get_contacts(r)
        \/ get_contacts_resume(r)

SpecCaps == InitCaps /\ [][NextCaps]_vars

\* --------------------------------------------------------------- properties
Answered(r, kind) == reqs[r].kind = kind /\ reqs[r].pc = "done"

\* request r is answered in this step
Completes(r) == reqs[r].pc # "done" /\ reqs'[r].pc = "done"

IsPrefix(s, t) == Len(s) <= Len(t) /\ SubSeq(t, 1, Len(s)) = s

\* C1: a POST /contact whose webhook call returned 200 is answered with the
\* success acknowledgment, whether the store is unconfigured, the insert
\* succeeded or the insert raised
C1_WebhookOkIsSuccess ==
    \A r \in Reqs :
        (Answered(r, "post_contact") /\ reqs[r].web.exc = "none" /\ reqs[r].web.status_code = 200)
            => (reqs[r].resp.status = 200 /\ reqs[r].resp.detail = "success")

C1_Witness ==
    \E r \in Reqs :
        /\ Answered(r, "post_contact")
        /\ reqs[r].web.status_code = 200
        /\ reqs[r].storeExc
        /\ reqs[r].resp.status = 200

\* C2: no store or webhook failure leaves a handler uncaught, and a failing
\* store makes POST /status and GET /status answer 503
C2_NoExceptionEscapes ==
    \A r \in Reqs :
        reqs[r].pc = "done" =>
            /\ ~reqs[r].resp.escaped
            /\ (reqs[r].storeExc /\ reqs[r].kind \in {"post_status", "get_status"})
                  => reqs[r].resp.status = 503

\* C3: with db None the store routes answer 503 without touching the store,
\* GET / answers the liveness payload and POST /contact answers by the webhook
\* result alone
C3_Unconfigured ==
    db = "None" =>
        \A r \in Reqs :
            /\ reqs[r].storeCalls = 0
            /\ reqs[r].pc \in {"new", "done"}
            /\ reqs[r].pc = "done" =>
                  /\ reqs[r].kind \in {"post_status", "get_status", "get_contacts"}
                        => (reqs[r].resp.status = 503 /\ reqs[r].resp.detail = "Database not configured")
                  /\ reqs[r].kind = "admin"
                        => (reqs[r].resp.status = 503 /\ reqs[r].resp.detail = "Admin panel unavailable")
                  /\ reqs[r].kind = "root"
                        => (reqs[r].resp.status = 200 /\ reqs[r].resp.detail = "Hello World - backend up")
                  /\ (reqs[r].kind = "post_contact" /\ reqs[r].webCalls = 1)
                        => IF reqs[r].web.exc = "none" /\ reqs[r].web.status_code = 200
                           THEN reqs[r].resp.status = 200 /\ reqs[r].resp.detail = "success"
                           ELSE reqs[r].resp.status = 500

C3_Witness ==
    /\ db = "None"
    /\ \E r \in Reqs : Answered(r, "post_status") /\ reqs[r].resp.status = 503
    /\ \E r \in Reqs : Answered(r, "post_contact") /\ reqs[r].resp.status = 200

\* C4: a POST /contact whose webhook call returned a status other than 200 is
\* answered 500 "Failed to send message", makes no store call and leaves the
\* contacts collection as it was
C4_Non200IsInternalError ==
    [][\A r \in Reqs :
          (Completes(r) /\ reqs'[r].kind = "post_contact"
             /\ reqs'[r].web.exc = "none" /\ reqs'[r].web.status_code # 200)
          => /\ reqs'[r].resp.status = 500
             /\ reqs'[r].resp.detail = "Failed to send message"
             /\ reqs'[r].storeCalls = 0
             /\ contacts' = contacts]_vars

C4_Witness ==
    \E r \in Reqs :
        /\ Answered(r, "post_contact")
        /\ reqs[r].web.exc = "none" /\ reqs[r].web.status_code = 500
        /\ reqs[r].resp.status = 500
        /\ db = "configured"

\* the addresses of Emails that are not syntactically valid
InvalidEmails == { <<"a", "b", ".", "c">>, <<"@", "b", ".", "c">> }

\* C7: a POST /contact with an invalid email is rejected in validation: it
\* never calls the webhook and never calls the store
C7_InvalidEmailRejected ==
    \A r \in Reqs :
        (reqs[r].kind = "post_contact" /\ reqs[r].email \in InvalidEmails)
            => /\ reqs[r].webCalls = 0
               /\ reqs[r].storeCalls = 0
               /\ reqs[r].pc = "done"
               /\ reqs[r].resp.status = 422

C7_Witness ==
    \E r \in Reqs :
        /\ Answered(r, "post_contact")
        /\ reqs[r].email = <<"@", "b", ".", "c">>
        /\ reqs[r].resp.status = 422

\* C8: a POST /contact whose webhook call takes longer than the timeout is
\* answered 500 "Timeout sending message" without a store call; a non-200
\* reply or another exception is answered 500 "Failed to send message"
C8_TimeoutMessage ==
    \A r \in Reqs :
        (Answered(r, "post_contact") /\ reqs[r].webCalls > 0) =>
            /\ reqs[r].web.elapsed > 15 =>
                  /\ reqs[r].resp.status = 500
                  /\ reqs[r].resp.detail = "Timeout sending message"
                  /\ reqs[r].storeCalls = 0
            /\ (reqs[r].web.elapsed <= 15 /\ reqs[r].web.status_code # 200) =>
                  /\ reqs[r].resp.status = 500
                  /\ reqs[r].resp.detail = "Failed to send message"

C8_Witness ==
    \E r \in Reqs :
        /\ Answered(r, "post_contact")
        /\ reqs[r].web.elapsed = 16
        /\ reqs[r].resp.detail = "Timeout sending message"

\* C9: a request makes at most one store call and at most one webhook call,
\* also when the call failed or timed out
C9_SingleAttempt ==
    \A r \in Reqs : reqs[r].storeCalls <= 1 /\ reqs[r].webCalls <= 1

C9_Witness ==
    /\ \E r \in Reqs : reqs[r].pc = "done" /\ reqs[r].storeExc /\ reqs[r].storeCalls = 1
    /\ \E r \in Reqs : reqs[r].pc = "done" /\ reqs[r].web.exc = "Timeout" /\ reqs[r].webCalls = 1

\* C10: under every interleaving the stored records are append-only: a step
\* keeps every stored record, a POST /status answered 200 adds exactly one
\* status record, a POST /contact adds at most one contact, every other
\* request adds nothing
C10_AppendOnly ==
    [][/\ IsPrefix(status_checks, status_checks')
       /\ IsPrefix(contacts, contacts')
       /\ Len(status_checks') + Len(contacts') <= Len(status_checks) + Len(contacts) + 1
       /\ \A r \in Reqs :
             /\ reqs'[r] = reqs[r] \/ \A q \in Reqs \ {r} : reqs'[q] = reqs[q]
             /\ reqs'[r] # reqs[r] =>
                   /\ (Completes(r) /\ reqs'[r].kind = "post_status" /\ reqs'[r].resp.status = 200)
                         => (Len(status_checks') = Len(status_checks) + 1
                             /\ status_checks'[Len(status_checks')].id = reqs'[r].resp.body[1].id)
                   /\ ~(Completes(r) /\ reqs'[r].kind = "post_status" /\ reqs'[r].resp.status = 200)
                         => status_checks' = status_checks
                   /\ reqs'[r].kind # "post_contact" => contacts' = contacts]_vars

C10_Witness ==
    /\ Len(status_checks) = 1
    /\ Len(contacts) = 1
    /\ \A r \in Reqs : reqs[r].pc = "done"

\* a GET /status reads the store and is answered 200 in this step
Lists(g) ==
    /\ reqs[g].kind = "get_status" /\ reqs[g].pc = "await_find"
    /\ reqs'[g].pc = "done" /\ reqs'[g].resp.status = 200

\* a POST /status that was answered 200
Posted(p) == Answered(p, "post_status") /\ reqs[p].resp.status = 200

\* position k of the collection holds a record whose id no earlier one has
NewId(k) == \A j \in 1..(k - 1) : status_checks[j].id # status_checks[k].id

\* C5 as stated: whatever the store held before, a GET /status after a
\* successful POST /status lists a record with the posted client_name whose
\* id differs from the id of every record stored before it
C5_PostThenGetAnyStore ==
    [][\A g, p \in Reqs :
          (Lists(g) /\ Posted(p)) =>
              \E i \in DOMAIN reqs'[g].resp.body :
                  /\ reqs'[g].resp.body[i].client_name = reqs[p].client_name
                  /\ \A k \in DOMAIN status_checks :
                        status_checks[k].id = reqs'[g].resp.body[i].id => NewId(k)]_vars

\* C5 amended: when the store holds at most 1000 status records at the read,
\* a GET /status after a successful POST /status lists the posted record,
\* with the posted client_name and an id that differs from the id of every
\* record stored before it
C5_PostThenGetWithinCap ==
    [][\A g, p \in Reqs :
          (Lists(g) /\ Posted(p) /\ Len(status_checks) <= 1000) =>
              \E i \in DOMAIN reqs'[g].resp.body :
                  /\ reqs'[g].resp.body[i].client_name = reqs[p].client_name
                  /\ reqs'[g].resp.body[i].id = reqs[p].resp.body[1].id
                  /\ \A k \in DOMAIN status_checks :
                        status_checks[k].id = reqs'[g].resp.body[i].id => NewId(k)]_vars

C5_Witness ==
    \E g, p \in Reqs :
        /\ Posted(p) /\ reqs[p].client_name = "b"
        /\ Answered(g, "get_status") /\ reqs[g].resp.status = 200
        /\ Len(status_checks) = 1000
        /\ \E i \in DOMAIN reqs[g].resp.body :
              reqs[g].resp.body[i].id = reqs[p].resp.body[1].id

\* C6: GET /status lists at most 1000 records and GET /contacts at most 100,
\* with count the number of contacts listed, also when the store holds more
C6_Caps ==
    \A r \in Reqs :
        /\ (Answered(r, "get_status") /\ reqs[r].resp.status = 200)
              => Len(reqs[r].resp.body) <= 1000
        /\ (Answered(r, "get_contacts") /\ reqs[r].resp.status = 200)
              => /\ Len(reqs[r].resp.body) <= 100
                 /\ reqs[r].resp.count = Len(reqs[r].resp.body)

C6_Witness ==
    /\ Len(status_checks) > 1000
    /\ Len(contacts) > 100
    /\ \E r \in Reqs : Answered(r, "get_status") /\ Len(reqs[r].resp.body) = 1000
    /\ \E r \in Reqs : Answered(r, "get_contacts") /\ Len(reqs[r].resp.body) = 100
====
